---- MODULE Spec2Model ----
(***************************************************************************)
(* Model of investhome.py: the annual-return estimator (get_stock_return   *)
(* behind lru_cache and tenacity's retry), the options catalog loader      *)
(* (get_Investmentoption) and the retirement calculator script (primary    *)
(* projection, key metrics, comparison table).                             *)
(*                                                                         *)
(* Python's float is IEEE-754 binary64.  A float is modelled by its exact  *)
(* value (-1)^neg * man * 2^exp with man an odd natural number (or zero)   *)
(* held as little-endian digits in base 2^15; every arithmetic operation   *)
(* computes the exact result and rounds it to 53 significant bits, ties to *)
(* even, as the hardware does.  Overflow, subnormals, infinities and the   *)
(* sign of zero are outside the modelled range.                            *)
(***************************************************************************)
EXTENDS Integers, Sequences, FiniteSets, TLC

----------------------------------------------------------------------------
(* Natural numbers of arbitrary size: little-endian digit sequences, no     *)
(* leading (high) zero digit; zero is the empty sequence.                   *)

Base == 2^15

Max2(a, b) == IF a >= b THEN a ELSE b

Min2(a, b) == IF a <= b THEN a ELSE b

Digit(a, i) == IF i <= Len(a) THEN a[i] ELSE 0

RECURSIVE BTrim(_)
BTrim(a) ==
    IF a = <<>> THEN <<>>
    ELSE IF a[Len(a)] # 0 THEN a
    ELSE BTrim(SubSeq(a, 1, Len(a) - 1))

RECURSIVE BFromNat(_)
BFromNat(n) == IF n = 0 THEN <<>> ELSE <<n % Base>> \o BFromNat(n \div Base)

RECURSIVE BAddC(_, _, _, _, _)
BAddC(a, b, i, carry, acc) ==
    IF i > Max2(Len(a), Len(b))
    THEN IF carry = 0 THEN acc ELSE Append(acc, carry)
    ELSE LET s == Digit(a, i) + Digit(b, i) + carry
         IN  BAddC(a, b, i + 1, s \div Base, Append(acc, s % Base))

BAdd(a, b) == BAddC(a, b, 1, 0, <<>>)

RECURSIVE BSubC(_, _, _, _, _)
BSubC(a, b, i, borrow, acc) ==
    IF i > Len(a) THEN acc
    ELSE LET d == a[i] - Digit(b, i) - borrow
         IN  IF d < 0 THEN BSubC(a, b, i + 1, 1, Append(acc, d + Base))
             ELSE BSubC(a, b, i + 1, 0, Append(acc, d))

\* a - b for a >= b
BSub(a, b) == BTrim(BSubC(a, b, 1, 0, <<>>))

RECURSIVE BCmpFrom(_, _, _)
BCmpFrom(a, b, i) ==
    IF i = 0 THEN 0
    ELSE IF a[i] > b[i] THEN 1
    ELSE IF a[i] < b[i] THEN -1
    ELSE BCmpFrom(a, b, i - 1)

\* -1, 0 or 1 as a < b, a = b, a > b
BCmp(a, b) ==
    IF Len(a) > Len(b) THEN 1
    ELSE IF Len(a) < Len(b) THEN -1
    ELSE BCmpFrom(a, b, Len(a))

RECURSIVE BMulSmallC(_, _, _, _, _)
BMulSmallC(a, k, i, carry, acc) ==
    IF i > Len(a)
    THEN IF carry = 0 THEN acc ELSE Append(acc, carry)
    ELSE LET p == a[i] * k + carry
         IN  BMulSmallC(a, k, i + 1, p \div Base, Append(acc, p % Base))

\* a * k for a digit k < Base
BMulSmall(a, k) == IF k = 0 THEN <<>> ELSE BMulSmallC(a, k, 1, 0, <<>>)

BShlDigits(a, q) == IF a = <<>> THEN <<>> ELSE [i \in 1..q |-> 0] \o a

RECURSIVE BMulFrom(_, _, _, _)
BMulFrom(a, b, j, acc) ==
    IF j > Len(b) THEN acc
    ELSE BMulFrom(a, b, j + 1,
                  BAdd(acc, BShlDigits(BMulSmall(a, b[j]), j - 1)))

BMul(a, b) == BMulFrom(a, b, 1, <<>>)

\* a * 2^n
BShl(a, n) == BShlDigits(BMulSmall(a, 2^(n % 15)), n \div 15)

RECURSIVE BDivSmallC(_, _, _, _, _)
BDivSmallC(a, k, i, rem, acc) ==
    IF i = 0 THEN acc
    ELSE LET cur == rem * Base + a[i]
         IN  BDivSmallC(a, k, i - 1, cur % k, <<cur \div k>> \o acc)

\* floor(a / k) for a digit k < Base
BDivSmall(a, k) == BTrim(BDivSmallC(a, k, Len(a), 0, <<>>))

\* floor(a / 2^n)
BShr(a, n) ==
    IF n \div 15 >= Len(a) THEN <<>>
    ELSE BDivSmall(SubSeq(a, n \div 15 + 1, Len(a)), 2^(n % 15))

RECURSIVE NatBits(_)
NatBits(n) == IF n = 0 THEN 0 ELSE 1 + NatBits(n \div 2)

\* number of significant bits
BBitLen(a) ==
    IF a = <<>> THEN 0 ELSE 15 * (Len(a) - 1) + NatBits(a[Len(a)])

BIsOdd(a) == a # <<>> /\ a[1] % 2 = 1

RECURSIVE NatTrailingZeros(_)
NatTrailingZeros(n) == IF n % 2 = 1 THEN 0 ELSE 1 + NatTrailingZeros(n \div 2)

RECURSIVE BTrailingZeros(_, _)
BTrailingZeros(a, i) ==
    IF a[i] = 0 THEN 15 + BTrailingZeros(a, i + 1)
    ELSE NatTrailingZeros(a[i])

\* the largest digit k with k * d <= r, for r < Base * d, by bisection
RECURSIVE DigitQuot(_, _, _, _)
DigitQuot(r, d, lo, hi) ==
    IF lo = hi THEN lo
    ELSE LET mid == (lo + hi + 1) \div 2
         IN  IF BCmp(BMulSmall(d, mid), r) <= 0
             THEN DigitQuot(r, d, mid, hi)
             ELSE DigitQuot(r, d, lo, mid - 1)

\* quotient and remainder of n / d (d # 0): long division, a digit at a time;
\* r2 is the running remainder with the next digit of n brought down, k the
\* quotient digit
RECURSIVE BDivModC(_, _, _, _, _)
BDivDigit(n, d, i, q, r2, k) ==
    BDivModC(n, d, i - 1, <<k>> \o q, BSub(r2, BMulSmall(d, k)))

BDivStep(n, d, i, q, r2) ==
    BDivDigit(n, d, i, q, r2, DigitQuot(r2, d, 0, Base - 1))

BDivModC(n, d, i, q, r) ==
    IF i = 0 THEN [quo |-> BTrim(q), rem |-> r]
    ELSE BDivStep(n, d, i, q, BTrim(<<n[i]>> \o r))

BDivMod(n, d) == BDivModC(n, d, Len(n), <<>>, <<>>)

----------------------------------------------------------------------------
(* IEEE-754 binary64 values and operations.                                 *)

MantissaBits == 53

Zero == [neg |-> FALSE, man |-> <<>>, exp |-> 0]

IsZero(x) == x.man = <<>>

CanonShift(neg, m, e, tz) == [neg |-> neg, man |-> BShr(m, tz), exp |-> e + tz]

\* the float of exact value (-1)^neg * m * 2^e, m of at most 53 bits
Canon(neg, m, e) ==
    IF m = <<>> THEN Zero ELSE CanonShift(neg, m, e, BTrailingZeros(m, 1))

\* q * 2^e, or the next float up when the bits cut off, compared with half
\* a unit of q (c = -1, 0, 1), are more than half, or half and q is odd
RoundBy(neg, e, q, c) ==
    Canon(neg,
          IF c > 0 \/ (c = 0 /\ BIsOdd(q)) THEN BAdd(q, <<1>>) ELSE q,
          e)

RoundQuot(neg, m, e, sh, q) ==
    RoundBy(neg, e + sh, q,
            BCmp(BShl(BSub(m, BShl(q, sh)), 1), BShl(<<1>>, sh)))

\* (-1)^neg * m * 2^e rounded to the nearest float, ties to even
Round(neg, m, e) ==
    IF BBitLen(m) <= MantissaBits THEN Canon(neg, m, e)
    ELSE RoundQuot(neg, m, e, BBitLen(m) - MantissaBits,
                   BShr(m, BBitLen(m) - MantissaBits))

\* int -> float
FromInt(n) == IF n < 0 THEN Canon(TRUE, BFromNat(-n), 0)
              ELSE Canon(FALSE, BFromNat(n), 0)

FNeg(x) == IF IsZero(x) THEN x ELSE [x EXCEPT !.neg = ~x.neg]

\* comparison of magnitudes: -1, 0, 1
FCmpAbs(x, y) ==
    LET e == Min2(x.exp, y.exp)
    IN  BCmp(BShl(x.man, x.exp - e), BShl(y.man, y.exp - e))

\* the sum of (-1)^xn * mx * 2^e and (-1)^yn * my * 2^e; c compares mx, my
FAddSigned(xn, yn, mx, my, e, c) ==
    Round(IF xn = yn \/ c >= 0 THEN xn ELSE yn,
          IF xn = yn THEN BAdd(mx, my)
          ELSE IF c >= 0 THEN BSub(mx, my)
          ELSE BSub(my, mx),
          e)

FAddAligned(xn, yn, mx, my, e) == FAddSigned(xn, yn, mx, my, e, BCmp(mx, my))

FAddAt(x, y, e) ==
    FAddAligned(x.neg, y.neg, BShl(x.man, x.exp - e), BShl(y.man, y.exp - e), e)

\* x + y
FAdd(x, y) ==
    IF IsZero(x) THEN y
    ELSE IF IsZero(y) THEN x
    ELSE FAddAt(x, y, Min2(x.exp, y.exp))

\* x - y
FSub(x, y) == FAdd(x, FNeg(y))

\* x * y
FMul(x, y) ==
    IF IsZero(x) \/ IsZero(y) THEN Zero
    ELSE Round(x.neg # y.neg, BMul(x.man, y.man), x.exp + y.exp)

FDivQuot(neg, e, dm) ==
    Round(neg,
          BAdd(BMulSmall(dm.quo, 2), IF dm.rem = <<>> THEN <<>> ELSE <<1>>),
          e)

FDivScaled(x, y, k) ==
    FDivQuot(x.neg # y.neg, x.exp - y.exp - k - 1,
             BDivMod(BShl(x.man, k), y.man))

\* x / y for y # 0: the quotient to 55 or more bits and a sticky bit, rounded
FDiv(x, y) ==
    IF IsZero(x) THEN Zero
    ELSE FDivScaled(x, y,
             Max2(0, MantissaBits + 2 + BBitLen(y.man) - BBitLen(x.man)))

\* x < y
FLt(x, y) ==
    IF x.neg /\ ~y.neg THEN ~(IsZero(x) /\ IsZero(y))
    ELSE IF ~x.neg /\ y.neg THEN FALSE
    ELSE IF IsZero(x) THEN ~IsZero(y) /\ ~y.neg
    ELSE IF IsZero(y) THEN x.neg
    ELSE IF x.neg THEN FCmpAbs(x, y) > 0
    ELSE FCmpAbs(x, y) < 0

FLe(x, y) == x = y \/ FLt(x, y)

One == [neg |-> FALSE, man |-> <<1>>, exp |-> 0]

----------------------------------------------------------------------------
(* The quote source and get_stock_return.                                   *)

\* a missing closing price (NaN)
NaN == [nan |-> TRUE]

\* the value returned when the history gives no rate: 0.07
DefaultRate == FDiv(FromInt(7), FromInt(100))

\* the divisor of (last date - first date).days: 365.25
DaysPerYear == FDiv(FromInt(1461), FromInt(4))

\* what x ** y stands for where the model has no exact value for it
Unmodelled == [unmodelled |-> TRUE]

Fourth(r) == FMul(FMul(r, r), FMul(r, r))

Quarter == [neg |-> FALSE, man |-> <<1>>, exp |-> -2]

ExactRoots == {FromInt(2), FDiv(One, FromInt(2))}

PickRoot(roots) == IF roots = {} THEN Unmodelled ELSE CHOOSE r \in roots : TRUE

\* x ** y, for the arguments whose power is an exact float: 1.0 ** y = 1.0,
\* and x ** 0.25 for x the fourth power of 2 or of 1/2
Pow(x, y) ==
    IF x = One THEN One
    ELSE IF y = Quarter THEN PickRoot({r \in ExactRoots : Fourth(r) = x})
    ELSE Unmodelled

\* hist['Close'].dropna()
DropNa(hist) == SelectSeq(hist, LAMBDA row : row.close # NaN)

LessOne(p) == IF p = Unmodelled THEN Unmodelled ELSE FSub(p, One)

\* (final_price / initial_price) ** (1 / num_years) - 1
AnnualReturn(final_price, initial_price, num_years) ==
    LessOne(Pow(FDiv(final_price, initial_price), FDiv(One, num_years)))

\* a variant of RateOverSpan taking a year for 365 days, for testing C2
RateOverYearOf365Days(closes, num_years) ==
    IF FLt(num_years, FDiv(FromInt(365), DaysPerYear)) THEN DefaultRate
    ELSE AnnualReturn(closes[Len(closes)].close, closes[1].close, num_years)

\* num_years < 1 ... return 0.07, else the annual return
RateOverSpan(closes, num_years) ==
    IF FLt(num_years, One) THEN DefaultRate
    ELSE AnnualReturn(closes[Len(closes)].close, closes[1].close, num_years)

\* the prices kept after dropna(): fewer than 2 give the default rate
RateOfCloses(closes) ==
    IF Len(closes) < 2 THEN DefaultRate
    ELSE RateOverSpan(closes,
             FDiv(FromInt(closes[Len(closes)].date - closes[1].date),
                  DaysPerYear))

\* The body of get_stock_return for one answer of the quote source: answer
\* is [raises, rows], rows the (date, close) rows of history(period="5y"),
\* dates in days.  Every exception is caught, so raised is never TRUE.
GetStockReturnBody(answer) ==
    IF answer.raises THEN [raised |-> FALSE, value |-> DefaultRate]
    ELSE IF answer.rows = <<>> THEN [raised |-> FALSE, value |-> DefaultRate]
    ELSE [raised |-> FALSE, value |-> RateOfCloses(DropNa(answer.rows))]

\* lru_cache(maxsize=128)
MaxSize == 128

\* stop_after_attempt(3)
MaxAttempts == 3

\* The cache is the sequence of its [key, value] entries, least recently
\* used first.
LruHas(c, key) == \E i \in 1..Len(c) : c[i].key = key

LruIndex(c, key) == CHOOSE i \in 1..Len(c) : c[i].key = key

LruGet(c, key) == c[LruIndex(c, key)].value

\* a hit moves the entry to the most recently used end
LruTouch(c, key) ==
    LET i == LruIndex(c, key)
    IN  SubSeq(c, 1, i - 1) \o SubSeq(c, i + 1, Len(c)) \o <<c[i]>>

\* a variant of LruPut evicting one entry early, for testing C3
LruPutOneShort(c, key, value) ==
    IF LruHas(c, key) THEN c
    ELSE IF Len(c) < MaxSize - 1 THEN Append(c, [key |-> key, value |-> value])
    ELSE Append(Tail(c), [key |-> key, value |-> value])

\* the store after a miss: nothing if the key is there by now, else the entry
\* is appended and, the cache being full, the least recently used one dropped
LruPut(c, key, value) ==
    IF LruHas(c, key) THEN c
    ELSE IF Len(c) < MaxSize THEN Append(c, [key |-> key, value |-> value])
    ELSE Append(Tail(c), [key |-> key, value |-> value])

\* tenacity's verdict on an attempt that raised: try again, or give up
RetryAgain(attempt) == attempt < MaxAttempts

\* One call get_stock_return(symbol) on cache c, the quote source answering
\* the call's successive fetches with answers[1], answers[2], ...: the
\* retry wrapper around the cache wrapper around the body.  fetched counts
\* the fetches made.
RECURSIVE Attempt(_, _, _, _)
AfterBody(c, symbol, answers, n, r) ==
    IF ~r.raised
    THEN [raised |-> FALSE, value |-> r.value,
          cache |-> LruPut(c, symbol, r.value), fetched |-> n]
    ELSE IF RetryAgain(n) THEN Attempt(c, symbol, answers, n + 1)
    ELSE [raised |-> TRUE, value |-> [error |-> "RetryError"],
          cache |-> c, fetched |-> n]

Attempt(c, symbol, answers, n) ==
    IF LruHas(c, symbol)
    THEN [raised |-> FALSE, value |-> LruGet(c, symbol),
          cache |-> LruTouch(c, symbol), fetched |-> n - 1]
    ELSE AfterBody(c, symbol, answers, n, GetStockReturnBody(answers[n]))

GetStockReturn(c, symbol, answers) == Attempt(c, symbol, answers, 1)

----------------------------------------------------------------------------
(* get_Investmentoption.  A string is the sequence of its pieces, "|" and   *)
(* " " being pieces of their own: "AAPL|Apple Inc" is                       *)
(* <<"AAPL", "|", "Apple Inc">>.                                            *)

Custom == <<"Custom">>

\* the base set of options, in the dict's order; of is the symbol the
\* option's lambda passes to get_stock_return, or its fixed rate
BaseOptions ==
    << [label |-> <<"S&P 500 Index Fund (ETF)">>, kind |-> "symbol", of |-> <<"SPY">>],
       [label |-> <<"Nasdaq ETF (QQQ)">>, kind |-> "symbol", of |-> <<"QQQ">>],
       [label |-> <<"Bitcoin (BTC)">>, kind |-> "symbol", of |-> <<"BTC-USD">>],
       [label |-> <<"Ethereum (ETH)">>, kind |-> "symbol", of |-> <<"ETH-USD">>],
       [label |-> <<"Government Bond (10-year)">>, kind |-> "fixed",
        of |-> FDiv(FromInt(3), FromInt(100))],
       [label |-> <<"Corporate Bond (10-year)">>, kind |-> "fixed",
        of |-> FDiv(FromInt(5), FromInt(100))],
       [label |-> Custom, kind |-> "custom", of |-> <<>>] >>

HasLabel(options, label) == \E i \in 1..Len(options) : options[i].label = label

OptionAt(options, label) ==
    options[CHOOSE i \in 1..Len(options) : options[i].label = label]

\* investment_options[description] = lambda s=symbol: get_stock_return(s)
SetOption(options, description, symbol) ==
    IF HasLabel(options, description)
    THEN [i \in 1..Len(options) |->
            IF options[i].label = description
            THEN [label |-> description, kind |-> "symbol", of |-> symbol]
            ELSE options[i]]
    ELSE Append(options, [label |-> description, kind |-> "symbol", of |-> symbol])

HasBar(txt) == \E i \in 1..Len(txt) : txt[i] = "|"

FirstBar(txt) ==
    CHOOSE i \in 1..Len(txt) : txt[i] = "|" /\ \A j \in 1..(i - 1) : txt[j] # "|"

\* txt.split("|")
RECURSIVE SplitBar(_)
SplitBar(txt) ==
    IF ~HasBar(txt) THEN <<txt>>
    ELSE <<SubSeq(txt, 1, FirstBar(txt) - 1)>>
         \o SplitBar(SubSeq(txt, FirstBar(txt) + 1, Len(txt)))

\* txt.strip()
RECURSIVE Strip(_)
Strip(txt) ==
    IF txt = <<>> THEN txt
    ELSE IF txt[1] = " " THEN Strip(Tail(txt))
    ELSE IF txt[Len(txt)] = " " THEN Strip(SubSeq(txt, 1, Len(txt) - 1))
    ELSE txt

Parsed(symbol, description) ==
    [err |-> "", symbol |-> symbol, description |-> description]

Raised(err) == [err |-> err, symbol |-> <<>>, description |-> <<>>]

\* parts[0], parts[1]
FirstTwo(parts) ==
    IF Len(parts) < 2 THEN Raised("IndexError") ELSE Parsed(parts[1], parts[2])

\* A row is the sequence of its cells; a cell is [kind, text]: kind "text",
\* or "number" or "nan" (an empty cell) with text what str() makes of it.
\* row[i] of a row without column i raises KeyError.
ParseNasdaq(row) ==
    IF Len(row) < 1 THEN Raised("KeyError")
    ELSE IF row[1].kind # "text" THEN Raised("AttributeError")
    ELSE FirstTwo(SplitBar(row[1].text))

ParseNyse(row) ==
    IF Len(row) < 2 THEN Raised("KeyError")
    ELSE Parsed(Strip(row[1].text), Strip(row[2].text))

ParseCrypto(row) ==
    IF Len(row) < 2 THEN Raised("KeyError")
    ELSE Parsed(Strip(row[1].text) \o <<"-USD">>, Strip(row[2].text))

Parse(parser, row) ==
    IF parser = "parse_nasdaq" THEN ParseNasdaq(row)
    ELSE IF parser = "parse_nyse" THEN ParseNyse(row)
    ELSE ParseCrypto(row)

\* the loop over df.iterrows(): a row whose parser raises IndexError or
\* ValueError is skipped; any other exception leaves the loop
RECURSIVE LoadRows(_, _, _, _)
AfterParse(parser, rows, i, options, parsed) ==
    IF parsed.err = ""
    THEN LoadRows(parser, rows, i + 1,
                  IF parsed.symbol # <<>> /\ parsed.description # <<>>
                  THEN SetOption(options, parsed.description, parsed.symbol)
                  ELSE options)
    ELSE IF parsed.err \in {"IndexError", "ValueError"}
    THEN LoadRows(parser, rows, i + 1, options)
    ELSE [options |-> options, messages |-> <<"error">>]

LoadRows(parser, rows, i, options) ==
    IF i > Len(rows) THEN [options |-> options, messages |-> <<>>]
    ELSE AfterParse(parser, rows, i, options, Parse(parser, rows[i]))

\* load_options_from_excel: file is what read_excel finds at the file path
\* and sheet: [status, rows], status "missing" (FileNotFoundError),
\* "unreadable" (any other error) or "ok"
LoadOptionsFromExcel(file, parser, options) ==
    IF file.status = "missing"
    THEN [options |-> options, messages |-> <<"warning">>]
    ELSE IF file.status = "unreadable"
    THEN [options |-> options, messages |-> <<"error">>]
    ELSE LoadRows(parser, file.rows, 1, options)

Exchanges == {"NASDAQ", "TSX TORONTO", "NYSE", "CRYPTO"}

ParserOf(exchange) ==
    IF exchange \in {"NASDAQ", "TSX TORONTO"} THEN "parse_nasdaq"
    ELSE IF exchange = "NYSE" THEN "parse_nyse"
    ELSE "parse_crypto"

\* get_Investmentoption(exchange), file being the sheet the exchange reads
GetInvestmentOption(exchange, file) ==
    IF exchange \in Exchanges
    THEN LoadOptionsFromExcel(file, ParserOf(exchange), BaseOptions)
    ELSE [options |-> BaseOptions, messages |-> <<>>]

----------------------------------------------------------------------------
(* The projection, the comparison and the formatting of their figures.      *)
(* The script's ints (ages, savings, contributions) enter float arithmetic  *)
(* through FromInt.  The CAGR figures (lines 257-263, 297-300) are left     *)
(* out: they are displayed and nothing else reads them.                     *)

Last(seq) == seq[Len(seq)]

\* rate - inflation_rate
AdjustForInflation(rate, inflation) == FSub(rate, inflation)

\* a variant of NextSavings leaving the year's growth out, for testing C6
NextSavingsWithoutGrowth(balance, contribution, annual_growth) ==
    FAdd(balance, FromInt(contribution))

\* savings[-1] + annual_contribution + annual_growth
NextSavings(balance, contribution, annual_growth) ==
    FAdd(FAdd(balance, FromInt(contribution)), annual_growth)

\* one turn of the loop of lines 234-238 on p = [savings, contributions, growth]
AppendYear(p, contribution, annual_growth) ==
    [savings |-> Append(p.savings,
                        NextSavings(Last(p.savings), contribution, annual_growth)),
     contributions |-> Append(p.contributions, contribution),
     growth |-> Append(p.growth, annual_growth)]

RECURSIVE ProjectYears(_, _, _, _)
ProjectYears(p, contribution, rate, n) ==
    IF n = 0 THEN p
    ELSE ProjectYears(AppendYear(p, contribution, FMul(Last(p.savings), rate)),
                      contribution, rate, n - 1)

Projection(start, contribution, rate, n) ==
    ProjectYears([savings |-> <<FromInt(start)>>, contributions |-> <<0>>,
                  growth |-> <<Zero>>],
                 contribution, rate, n)

\* sum(contributions)
RECURSIVE SumTo(_, _)
SumTo(seq, k) == IF k = 0 THEN 0 ELSE SumTo(seq, k - 1) + seq[k]

\* pd.Series(growth).cumsum() at row k: the floats added one after the other
RECURSIVE FloatSumTo(_, _)
FloatSumTo(seq, k) ==
    IF k = 1 THEN seq[1] ELSE FAdd(FloatSumTo(seq, k - 1), seq[k])

DataFrame(years, p) ==
    [Year |-> years,
     TotalSavings |-> p.savings,
     Contributions |-> [k \in 1..Len(p.contributions) |-> SumTo(p.contributions, k)],
     Growth |-> [k \in 1..Len(p.growth) |-> FloatSumTo(p.growth, k)]]

\* a variant of TotalGrowth keeping the starting balance in, for testing C5
TotalGrowthWithStart(final, total, start) == FSub(final, FromInt(total))

\* savings[-1] - total_contributions - current_savings
TotalGrowth(final, total, start) ==
    FSub(FSub(final, FromInt(total)), FromInt(start))

\* a variant of NextOptionSavings keeping the growth alone, for testing C7
NextOptionSavingsOfGrowth(balance, rate, contribution) ==
    FAdd(FMul(balance, rate), FromInt(contribution))

\* option_savings[-1] * (1 + return_rate) + annual_contribution
NextOptionSavings(balance, rate, contribution) ==
    FAdd(FMul(balance, FAdd(One, rate)), FromInt(contribution))

RECURSIVE OptionYears(_, _, _, _)
OptionYears(series, rate, contribution, n) ==
    IF n = 0 THEN series
    ELSE OptionYears(Append(series, NextOptionSavings(Last(series), rate, contribution)),
                     rate, contribution, n - 1)

\* option_savings = [current_savings], then the loop of lines 291-292
OptionSavings(start, rate, contribution, n) ==
    OptionYears(<<FromInt(start)>>, rate, contribution, n)

\* a variant of TotalOptionContributions counting year 0 in, for testing C9
TotalOptionContributionsFromYear0(contribution, n) == contribution * (n + 1)

\* annual_contribution * years_to_invest
TotalOptionContributions(contribution, n) == contribution * n

\* total_option_savings - total_option_contributions - current_savings
TotalOptionReturns(final, total, start) ==
    FSub(FSub(final, FromInt(total)), FromInt(start))

\* f"{x:.2f}": the hundredths of x, the exact value rounded half to even
HundredthsBy(neg, q, c) ==
    [neg |-> neg,
     hundredths |-> IF c > 0 \/ (c = 0 /\ BIsOdd(q)) THEN BAdd(q, <<1>>) ELSE q]

HundredthsOf(neg, n, sh, q) ==
    HundredthsBy(neg, q, BCmp(BShl(BSub(n, BShl(q, sh)), 1), BShl(<<1>>, sh)))

Fixed2(x) ==
    IF x.exp >= 0
    THEN [neg |-> x.neg, hundredths |-> BShl(BMulSmall(x.man, 100), x.exp)]
    ELSE HundredthsOf(x.neg, BMulSmall(x.man, 100), -x.exp,
                      BShr(BMulSmall(x.man, 100), -x.exp))

Million == FromInt(1000000)

Billion == FMul(FromInt(1000), Million)

Trillion == FMul(Million, Million)

\* format_in_millions_billions_trillions
FormatInMillionsBillionsTrillions(value) ==
    IF FLe(Trillion, value) THEN [amount |-> Fixed2(FDiv(value, Trillion)), unit |-> "T"]
    ELSE IF FLe(Billion, value) THEN [amount |-> Fixed2(FDiv(value, Billion)), unit |-> "B"]
    ELSE IF FLe(Million, value) THEN [amount |-> Fixed2(FDiv(value, Million)), unit |-> "M"]
    ELSE [amount |-> Fixed2(value), unit |-> ""]

\* f"{return_rate * 100:.2f}%"
Percent(rate) == Fixed2(FMul(rate, FromInt(100)))

\* the row appended to comparison_metrics (without its CAGR)
MetricsRow(label, rate, total, final) ==
    [Option |-> label,
     AnnualReturn |-> Percent(rate),
     TotalContributions |-> FormatInMillionsBillionsTrillions(FromInt(total)),
     TotalSavings |-> FormatInMillionsBillionsTrillions(final)]

----------------------------------------------------------------------------
(* State.                                                                   *)

VARIABLES
    cache,      \* get_stock_return's lru_cache: [key, value] entries, LRU first
    fetches,    \* per symbol, the history() fetches made so far
    calls,      \* per symbol, the get_stock_return calls made so far
    request,    \* the call about to be made: [symbol, answers], or None
    lastCall,   \* the last completed call and what it returned, or None
    pc,         \* per caller thread: "idle", "fetching" or "returned"
    arg,        \* per caller thread: the symbol of its call
    attempt,    \* per caller thread: tenacity's attempt number
    got,        \* per caller thread: what its call returned
    step,       \* where the run of the script stands
    file,       \* the catalog sheet on disk: [status, rows]
    messages,   \* what st.warning and st.error have shown
    current_age, retirement_age, current_savings, annual_contribution,
    selected_exchange, investment_options, selected_option,
    custom_entry,   \* the "Enter Expected Annual Return (%)" input, when shown
    manual_return, inflation_rate,
    savings, contributions, growth, df, total_contributions, total_growth,
    comparison_options, comparison_data, comparison_metrics,
    next_option,    \* how many options the comparison loop has taken
    option, return_rate, option_savings,
    total_option_contributions, total_option_savings, total_option_returns

estVars == <<cache, fetches, calls, request, lastCall>>

thrVars == <<pc, arg, attempt, got>>

inputVars == <<current_age, retirement_age, current_savings, annual_contribution>>

optionVars == <<selected_exchange, investment_options, messages>>

rateVars == <<selected_option, custom_entry, manual_return, inflation_rate>>

projectionVars ==
    <<savings, contributions, growth, df, total_contributions, total_growth>>

comparisonVars == <<comparison_options, comparison_data, comparison_metrics>>

loopVars ==
    <<next_option, option, return_rate, option_savings,
      total_option_contributions, total_option_savings, total_option_returns>>

runVars ==
    <<step, file, inputVars, optionVars, rateVars, projectionVars,
      comparisonVars, loopVars>>

vars == <<estVars, thrVars, runVars>>

None == [none |-> TRUE]

\* Bounds of the model.
NumSymbols == 129

MaxPoints == 3

MaxCalls == 2

MaxYears == 2

MaxRows == 2

MaxCompared == 2

Symbols == 1..NumSymbols

Threads == {1, 2}

\* the script before its first line has run, the catalog sheet being f
ScriptUnstarted(f) ==
    /\ step = "inputs"
    /\ file = f
    /\ messages = <<>>
    /\ current_age = 0
    /\ retirement_age = 0
    /\ current_savings = 0
    /\ annual_contribution = 0
    /\ selected_exchange = ""
    /\ investment_options = <<>>
    /\ selected_option = <<>>
    /\ custom_entry = [shown |-> FALSE, percent |-> 0]
    /\ manual_return = Zero
    /\ inflation_rate = Zero
    /\ savings = <<>>
    /\ contributions = <<>>
    /\ growth = <<>>
    /\ df = None
    /\ total_contributions = 0
    /\ total_growth = Zero
    /\ comparison_options = <<>>
    /\ comparison_data = None
    /\ comparison_metrics = <<>>
    /\ next_option = 0
    /\ option = <<>>
    /\ return_rate = Zero
    /\ option_savings = <<>>
    /\ total_option_contributions = 0
    /\ total_option_savings = Zero
    /\ total_option_returns = Zero

Text(t) == [kind |-> "text", text |-> t]

Number(t) == [kind |-> "number", text |-> t]

Empty == [kind |-> "nan", text |-> <<"nan">>]

\* the catalog sheet of the runs of the whole script
RunFile == [status |-> "ok", rows |-> << <<Text(<<"AAPL", "|", "Apple Inc">>)>> >>]

----------------------------------------------------------------------------
(* Answers of the quote source.                                             *)

Failing == [raises |-> TRUE, rows |-> <<>>]

Row(d, c) == [date |-> d, close |-> c]

\* 1.0 to 16.0 over 1461 days (4 years): 100% a year
Doubling == [raises |-> FALSE,
             rows |-> <<Row(0, One), Row(1461, FromInt(16))>>]

\* 16.0 to 1.0 over 1461 days: -50% a year
Halving == [raises |-> FALSE,
            rows |-> <<Row(0, FromInt(16)), Row(1461, One)>>]

\* the same price 366 days apart: 0% a year
Flat == [raises |-> FALSE, rows |-> <<Row(0, One), Row(366, One)>>]

Dates == {0, 365, 366, 1461}

Closes == {NaN, One, FromInt(16)}

\* the histories of n rows, dates ascending
Histories(n) ==
    { [i \in 1..n |-> Row(h[i][1], h[i][2])] :
        h \in { g \in [1..n -> Dates \X Closes] :
                  \A i \in 1..(n - 1) : g[i][1] < g[i + 1][1] } }

Retained(rows) == SelectSeq(rows, LAMBDA row : row.close # NaN)

SpanDays(rows) ==
    Retained(rows)[Len(Retained(rows))].date - Retained(rows)[1].date

\* the histories whose annual return is an exact float (see Pow)
ExactHistory(rows) ==
    \/ Len(Retained(rows)) < 2
    \/ 4 * SpanDays(rows) < 1461
    \/ Retained(rows)[1].close = Retained(rows)[Len(Retained(rows))].close
    \/ SpanDays(rows) = 1461

Answers ==
    {Failing} \cup
    { [raises |-> FALSE, rows |-> h] :
        h \in { g \in UNION { Histories(n) : n \in 0..MaxPoints } :
                  ExactHistory(g) } }

\* what the quote source answers when a failed fetch is tried again
RetryAnswers == {Failing, Doubling}

----------------------------------------------------------------------------
(* A call of get_stock_return, whole.                                       *)

Returned(symbol, answers, r) ==
    /\ cache' = r.cache
    /\ fetches' = [fetches EXCEPT ![symbol] = @ + r.fetched]
    /\ calls' = [calls EXCEPT ![symbol] = @ + 1]
    /\ lastCall' = [symbol |-> symbol, answers |-> answers,
                    fetched |-> r.fetched, raised |-> r.raised,
                    value |-> r.value]

Lookup(symbol, answers) ==
    Returned(symbol, answers, GetStockReturn(cache, symbol, answers))

ThreadsIdle ==
    /\ pc = [t \in Threads |-> "idle"]
    /\ arg = [t \in Threads |-> 0]
    /\ attempt = [t \in Threads |-> 0]
    /\ got = [t \in Threads |-> None]

EstimatorFresh ==
    /\ cache = <<>>
    /\ fetches = [s \in Symbols |-> 0]
    /\ calls = [s \in Symbols |-> 0]
    /\ lastCall = None

(* SpecEstimate: one call on a fresh cache, for every answer the quote      *)
(* source may give to its first fetch and to the fetches of a retry.        *)

InitEstimate ==
    /\ EstimatorFresh
    /\ ThreadsIdle
    /\ ScriptUnstarted(RunFile)
    /\ request \in { [symbol |-> s, answers |-> <<a1, a2, a3>>] :
                       s \in {1, 2}, a1 \in Answers,
                       a2 \in RetryAnswers, a3 \in RetryAnswers }

ServeRequest ==
    /\ request # None
    /\ Lookup(request.symbol, request.answers)
    /\ request' = None
    /\ UNCHANGED <<thrVars, runVars>>

SpecEstimate == InitEstimate /\ [][ServeRequest]_vars

\* C1 (as claimed): a call whose first fetch raises fetches again, up to
\* MaxAttempts fetches in all; it returns the rate computed from the first
\* fetch that succeeds, and the default rate only when every fetch failed.
C1_RetriesBeforeDefault ==
    (lastCall # None /\ lastCall.answers[1].raises) =>
        IF \E n \in 1..MaxAttempts : ~lastCall.answers[n].raises
        THEN \E n \in 1..MaxAttempts :
                /\ ~lastCall.answers[n].raises
                /\ \A k \in 1..(n - 1) : lastCall.answers[k].raises
                /\ lastCall.fetched = n
                /\ lastCall.value = GetStockReturnBody(lastCall.answers[n]).value
        ELSE /\ lastCall.fetched = MaxAttempts
             /\ lastCall.value = DefaultRate

\* The failure outcomes of the quote source: the fetch raises (an error, an
\* unknown symbol), the series is empty, fewer than 2 closing prices are not
\* missing, or the span of the retained dates is below 1 year of 365.25 days.
FailureOutcome(a) ==
    \/ a.raises
    \/ a.rows = <<>>
    \/ Len(Retained(a.rows)) < 2
    \/ 4 * SpanDays(a.rows) < 1461

\* (lastPrice / firstPrice) ^ (1 / elapsedYears) - 1
Cagr(a) ==
    FSub(Pow(FDiv(Retained(a.rows)[Len(Retained(a.rows))].close,
                  Retained(a.rows)[1].close),
             FDiv(One, FDiv(FromInt(SpanDays(a.rows)), DaysPerYear))),
         One)

\* C2: for every answer of the quote source, get_stock_return raises nothing
\* and returns exactly 0.07 on a failure outcome and the annualized growth
\* (lastPrice / firstPrice) ^ (1 / elapsedYears) - 1 otherwise.
C2_DefaultOnFailureElseCagr ==
    lastCall # None =>
        /\ ~lastCall.raised
        /\ lastCall.value = IF FailureOutcome(lastCall.answers[1])
                            THEN DefaultRate
                            ELSE Cagr(lastCall.answers[1])

\* C2 witness: a history of two prices 365 days apart was answered with 0.07
C2_ShortSpanGotDefault ==
    /\ lastCall # None
    /\ ~lastCall.answers[1].raises
    /\ Len(Retained(lastCall.answers[1].rows)) >= 2
    /\ SpanDays(lastCall.answers[1].rows) = 365
    /\ lastCall.value = DefaultRate

(* SpecLRU: the calls of one run of the script, one after the other: the    *)
(* selected option's symbol (symbol 1), then the compared options' symbols, *)
(* each once, in the order 2, 3, ... with symbol 1 again anywhere among     *)
(* them.  The quote source answers a symbol's first fetch with Doubling and *)
(* any later fetch with Flat.                                               *)

Looked == {s \in Symbols : calls[s] > 0}

AnswerNow(s) == IF fetches[s] = 0 THEN Doubling ELSE Flat

NextSymbols ==
    (IF Cardinality(Looked) < NumSymbols THEN {Cardinality(Looked) + 1} ELSE {})
    \cup (IF calls[1] = 1 THEN {1} ELSE {})

InitLRU ==
    EstimatorFresh /\ ThreadsIdle /\ request = None /\ ScriptUnstarted(RunFile)

LookupNext ==
    /\ \E s \in NextSymbols :
          Lookup(s, <<AnswerNow(s), AnswerNow(s), AnswerNow(s)>>)
    /\ UNCHANGED <<request, thrVars, runVars>>

SpecLRU == InitLRU /\ [][LookupNext]_vars

\* C3 (as claimed): no symbol is ever fetched more than once.
C3_FetchedOncePerSymbol == \A s \in Symbols : fetches[s] <= 1

\* C3 (amended): while no more than MaxSize distinct symbols have been looked
\* up, no symbol has been fetched more than once, and a repeated call got the
\* result of the symbol's first fetch without fetching.
C3_FetchedOnceWithinCapacity ==
    Cardinality(Looked) <= MaxSize =>
        /\ \A s \in Symbols : fetches[s] <= 1
        /\ (lastCall # None /\ calls[lastCall.symbol] > 1) =>
              /\ lastCall.fetched = 0
              /\ lastCall.value = GetStockReturnBody(Doubling).value

\* C3 witness: with MaxSize distinct symbols looked up, a repeated call was
\* answered from the cache
C3_RepeatServedAtCapacity ==
    /\ Cardinality(Looked) = MaxSize
    /\ lastCall # None
    /\ calls[lastCall.symbol] = 2
    /\ lastCall.fetched = 0

(* SpecConc: caller threads inside get_stock_return at the same time.  The  *)
(* cache wrapper looks the key up, calls the body without holding a lock    *)
(* and stores the result when the body returns.                             *)

ConcSymbols == {1, 2}

ConcAnswers == {Failing, Doubling, Flat}

\* the cache wrapper, entered by thread t for symbol s
CacheWrapper(t, s) ==
    IF LruHas(cache, s)
    THEN /\ cache' = LruTouch(cache, s)
         /\ pc' = [pc EXCEPT ![t] = "returned"]
         /\ got' = [got EXCEPT ![t] = LruGet(cache, s)]
    ELSE /\ pc' = [pc EXCEPT ![t] = "fetching"]
         /\ UNCHANGED <<cache, got>>

\* thread t calls get_stock_return(s)
Enter(t, s) ==
    /\ pc[t] = "idle"
    /\ calls[s] < MaxCalls
    /\ calls' = [calls EXCEPT ![s] = @ + 1]
    /\ arg' = [arg EXCEPT ![t] = s]
    /\ attempt' = [attempt EXCEPT ![t] = 1]
    /\ CacheWrapper(t, s)
    /\ UNCHANGED <<fetches, request, lastCall, runVars>>

\* the body of thread t's call ends with r
BodyReturns(t, r) ==
    IF ~r.raised
    THEN /\ cache' = LruPut(cache, arg[t], r.value)
         /\ pc' = [pc EXCEPT ![t] = "returned"]
         /\ got' = [got EXCEPT ![t] = r.value]
         /\ UNCHANGED attempt
    ELSE IF RetryAgain(attempt[t])
    THEN /\ attempt' = [attempt EXCEPT ![t] = @ + 1]
         /\ CacheWrapper(t, arg[t])
    ELSE /\ pc' = [pc EXCEPT ![t] = "returned"]
         /\ got' = [got EXCEPT ![t] = [error |-> "RetryError"]]
         /\ UNCHANGED <<cache, attempt>>

\* the quote source answers thread t's fetch with a
Fetched(t, a) ==
    /\ pc[t] = "fetching"
    /\ fetches' = [fetches EXCEPT ![arg[t]] = @ + 1]
    /\ BodyReturns(t, GetStockReturnBody(a))
    /\ UNCHANGED <<calls, arg, request, lastCall, runVars>>

\* thread t's caller takes the result
Leave(t) ==
    /\ pc[t] = "returned"
    /\ pc' = [pc EXCEPT ![t] = "idle"]
    /\ arg' = [arg EXCEPT ![t] = 0]
    /\ attempt' = [attempt EXCEPT ![t] = 0]
    /\ got' = [got EXCEPT ![t] = None]
    /\ UNCHANGED <<estVars, runVars>>

InitConc ==
    EstimatorFresh /\ ThreadsIdle /\ request = None /\ ScriptUnstarted(RunFile)

NextConc ==
    \/ \E t \in Threads, s \in ConcSymbols : Enter(t, s)
    \/ \E t \in Threads, a \in ConcAnswers : Fetched(t, a)
    \/ \E t \in Threads : Leave(t)

SpecConc == InitConc /\ [][NextConc]_vars

InFlight(s) == {t \in Threads : pc[t] = "fetching" /\ arg[t] = s}

\* C4 (as claimed): at most one fetch per symbol is in flight at any moment.
C4_OneFetchInFlight == \A s \in ConcSymbols : Cardinality(InFlight(s)) <= 1

----------------------------------------------------------------------------
(* A run of the script, top to bottom.                                      *)

CurrentAges == {30}

SavingsEntries == {0, 1}

ContributionEntries == {0, 1}

Frequencies == {"Monthly", "Biweekly", "Quarterly", "Annual"}

\* the option labels the runs select and compare
Choices == {<<"Apple Inc">>, <<"Government Bond (10-year)">>, Custom}

CustomEntries == {0, 5}

InflationEntries == {2}

\* what the quote source answers during a run
RunAnswers == {Failing, Halving}

AnnualOf(frequency, contribution_value) ==
    IF frequency = "Biweekly" THEN contribution_value * 26
    ELSE IF frequency = "Quarterly" THEN contribution_value * 4
    ELSE IF frequency = "Annual" THEN contribution_value
    ELSE contribution_value * 12

\* lines 191-206: the sidebar inputs
ReadInputs ==
    /\ step = "inputs"
    /\ \E age \in CurrentAges, n \in 1..MaxYears, start \in SavingsEntries,
          frequency \in Frequencies, contribution_value \in ContributionEntries :
          /\ age + n <= 100
          /\ current_age' = age
          /\ retirement_age' = age + n
          /\ current_savings' = start
          /\ annual_contribution' = AnnualOf(frequency, contribution_value)
    /\ step' = "options"
    /\ UNCHANGED <<estVars, thrVars, file, optionVars, rateVars, projectionVars,
                   comparisonVars, loopVars>>

Loaded(exchange, r) ==
    /\ selected_exchange' = exchange
    /\ investment_options' = r.options
    /\ messages' = messages \o r.messages

\* lines 209-210: the exchange is selected and its catalog loaded
LoadOptions(exchange) ==
    /\ step = "options"
    /\ Loaded(exchange, GetInvestmentOption(exchange, file))
    /\ step' = "select"
    /\ UNCHANGED <<estVars, thrVars, file, inputVars, rateVars, projectionVars,
                   comparisonVars, loopVars>>

\* investment_options[label]() has returned r
OptionCalled(r) ==
    /\ ~r.raised
    /\ manual_return' = r.value
    /\ cache' = r.cache

\* lines 211-216: the option is selected and its rate read
SelectOption(label, percent, answer) ==
    /\ step = "select"
    /\ HasLabel(investment_options, label)
    /\ selected_option' = label
    /\ IF label = Custom
       THEN /\ custom_entry' = [shown |-> TRUE, percent |-> percent]
            /\ manual_return' = FDiv(FromInt(percent), FromInt(100))
            /\ UNCHANGED cache
       ELSE /\ custom_entry' = [shown |-> FALSE, percent |-> 0]
            /\ IF OptionAt(investment_options, label).kind = "fixed"
               THEN /\ manual_return' = OptionAt(investment_options, label).of
                    /\ UNCHANGED cache
               ELSE OptionCalled(GetStockReturn(cache,
                                     OptionAt(investment_options, label).of,
                                     <<answer, answer, answer>>))
    /\ step' = "inflation"
    /\ UNCHANGED <<fetches, calls, request, lastCall, thrVars, file, inputVars,
                   optionVars, inflation_rate, projectionVars, comparisonVars,
                   loopVars>>

\* lines 222-225: the inflation inputs
AdjustInflation(adjust_for_inflation_option, percent) ==
    /\ step = "inflation"
    /\ inflation_rate' = FDiv(FromInt(percent), FromInt(100))
    /\ manual_return' = IF adjust_for_inflation_option
                        THEN AdjustForInflation(manual_return, inflation_rate')
                        ELSE manual_return
    /\ step' = "project"
    /\ UNCHANGED <<estVars, thrVars, file, inputVars, optionVars,
                   selected_option, custom_entry, projectionVars, comparisonVars,
                   loopVars>>

YearsToInvest == retirement_age - current_age

Years == [k \in 1..(YearsToInvest + 1) |-> current_age + k - 1]

Projected(p) ==
    /\ savings' = p.savings
    /\ contributions' = p.contributions
    /\ growth' = p.growth
    /\ df' = DataFrame(Years, p)
    /\ total_contributions' = SumTo(p.contributions, Len(p.contributions))
    /\ total_growth' = TotalGrowth(Last(p.savings),
                                   SumTo(p.contributions, Len(p.contributions)),
                                   current_savings)

\* lines 228-255: the primary projection and its key metrics
Project ==
    /\ step = "project"
    /\ Projected(Projection(current_savings, annual_contribution, manual_return,
                            YearsToInvest))
    /\ step' = "compare"
    /\ UNCHANGED <<estVars, thrVars, file, inputVars, optionVars, rateVars,
                   comparisonVars, loopVars>>

\* the lists of distinct labels among those of s, at most n long
Picks(s, n) ==
    UNION { { q \in [1..m -> s] : \A i, j \in 1..m : i # j => q[i] # q[j] } :
              m \in 0..n }

\* lines 278-285: the options to compare are selected
StartComparison(picked) ==
    /\ step = "compare"
    /\ \A i \in 1..Len(picked) : HasLabel(investment_options, picked[i])
    /\ comparison_options' = picked
    /\ comparison_data' = [Year |-> Years, columns |-> <<>>]
    /\ comparison_metrics' = <<>>
    /\ next_option' = 0
    /\ step' = "loop"
    /\ UNCHANGED <<estVars, thrVars, file, inputVars, optionVars, rateVars,
                   projectionVars, option, return_rate, option_savings,
                   total_option_contributions, total_option_savings,
                   total_option_returns>>

\* comparison_data[label] = series
SetColumn(data, label, series) ==
    [data EXCEPT !.columns =
        IF \E i \in 1..Len(@) : @[i].label = label
        THEN [i \in 1..Len(@) |->
                IF @[i].label = label THEN [label |-> label, series |-> series]
                ELSE @[i]]
        ELSE Append(@, [label |-> label, series |-> series])]

\* lines 290-307 for the option label at the rate found for it
Compared(label, rate, series, total) ==
    /\ return_rate' = rate
    /\ option_savings' = series
    /\ total_option_contributions' = total
    /\ total_option_savings' = Last(series)
    /\ total_option_returns' = TotalOptionReturns(Last(series), total, current_savings)
    /\ comparison_data' = SetColumn(comparison_data, label, series)
    /\ comparison_metrics' =
          Append(comparison_metrics, MetricsRow(label, rate, total, Last(series)))

CompareAt(label, rate) ==
    Compared(label, rate,
             OptionSavings(current_savings, rate, annual_contribution, YearsToInvest),
             TotalOptionContributions(annual_contribution, YearsToInvest))

CompareCalled(label, r) ==
    /\ ~r.raised
    /\ cache' = r.cache
    /\ CompareAt(label, r.value)

\* lines 288-307: one turn of the loop over comparison_options
CompareOption(answer) ==
    /\ step = "loop"
    /\ next_option < Len(comparison_options)
    /\ next_option' = next_option + 1
    /\ option' = comparison_options[next_option + 1]
    /\ IF option' = Custom
       THEN CompareAt(option', manual_return) /\ UNCHANGED cache
       ELSE IF OptionAt(investment_options, option').kind = "fixed"
       THEN CompareAt(option', OptionAt(investment_options, option').of)
            /\ UNCHANGED cache
       ELSE CompareCalled(option',
                GetStockReturn(cache, OptionAt(investment_options, option').of,
                               <<answer, answer, answer>>))
    /\ UNCHANGED <<fetches, calls, request, lastCall, thrVars, step, file,
                   inputVars, optionVars, rateVars, projectionVars,
                   comparison_options>>

\* lines 309-317: the loop is over, the table is shown
ShowComparison ==
    /\ step = "loop"
    /\ next_option = Len(comparison_options)
    /\ step' = "done"
    /\ UNCHANGED <<estVars, thrVars, file, inputVars, optionVars, rateVars,
                   projectionVars, comparisonVars, loopVars>>

Init ==
    EstimatorFresh /\ ThreadsIdle /\ request = None /\ ScriptUnstarted(RunFile)

Next ==
    \/ ReadInputs
    \/ LoadOptions("NASDAQ")
    \/ \E label \in Choices, percent \in CustomEntries, answer \in RunAnswers :
          SelectOption(label, percent, answer)
    \/ \E adjust \in BOOLEAN, percent \in InflationEntries :
          AdjustInflation(adjust, percent)
    \/ Project
    \/ \E picked \in Picks(Choices, MaxCompared) : StartComparison(picked)
    \/ \E answer \in RunAnswers : CompareOption(answer)
    \/ ShowComparison

Spec == Init /\ [][Next]_vars

Ran == step \in {"compare", "loop", "done"}

\* 2^53: below it every integer is a float
ExactLimit == FMul(FromInt(2^26), FromInt(2^27))

AddUp(total_returns, total, start) ==
    FAdd(FAdd(total_returns, FromInt(total)), FromInt(start))

\* C5 (as claimed): total growth + total contributions + starting balance is
\* exactly the final balance, for the primary projection and for every
\* compared option.
C5_TotalsAddUpExactly ==
    /\ Ran => AddUp(total_growth, total_contributions, current_savings)
                = Last(savings)
    /\ next_option > 0 =>
          AddUp(total_option_returns, total_option_contributions, current_savings)
            = total_option_savings

\* C5 (amended): the totals add up exactly to the final balance whenever the
\* total growth computed is not negative and the final balance is below 2^53,
\* for the primary projection and for every compared option.
C5_TotalsAddUpWhenGrowthNotNegative ==
    /\ (Ran /\ ~total_growth.neg /\ FLt(Last(savings), ExactLimit)) =>
          AddUp(total_growth, total_contributions, current_savings) = Last(savings)
    /\ (next_option > 0 /\ ~total_option_returns.neg
          /\ FLt(total_option_savings, ExactLimit)) =>
          AddUp(total_option_returns, total_option_contributions, current_savings)
            = total_option_savings

\* C5 witness: a projection and a compared option whose growth is positive
\* and not a whole number, from a positive balance with contributions
C5_PositiveGrowthAddedUp ==
    /\ next_option > 0
    /\ current_savings > 0
    /\ annual_contribution > 0
    /\ ~total_growth.neg /\ total_growth.exp < 0
    /\ ~total_option_returns.neg /\ total_option_returns.exp < 0

\* C6: the trajectory has years_to_invest + 1 records; record 0 is the
\* starting balance with no contributions and no growth; record k adds the
\* contribution and the growth balance[k-1] * rate to balance[k-1], its
\* cumulative contributions are k contributions and its cumulative growth is
\* the sum of the growths so far; nothing is clamped for a negative rate.
C6_TrajectoryFollowsRecurrence ==
    Ran =>
        /\ Len(df.Year) = YearsToInvest + 1
        /\ Len(df.TotalSavings) = YearsToInvest + 1
        /\ Len(df.Contributions) = YearsToInvest + 1
        /\ Len(df.Growth) = YearsToInvest + 1
        /\ df.TotalSavings[1] = FromInt(current_savings)
        /\ df.Contributions[1] = 0
        /\ df.Growth[1] = Zero
        /\ \A k \in 1..YearsToInvest :
              /\ df.TotalSavings[k + 1] =
                    FAdd(FAdd(df.TotalSavings[k], FromInt(annual_contribution)),
                         FMul(df.TotalSavings[k], manual_return))
              /\ df.Contributions[k + 1] = annual_contribution * k
              /\ df.Growth[k + 1] =
                    FAdd(df.Growth[k], FMul(df.TotalSavings[k], manual_return))

\* C6 witness: a trajectory of more than one year at a negative rate whose
\* balance has gone below the starting balance
C6_BalanceFellAtNegativeRate ==
    /\ Ran
    /\ YearsToInvest >= 2
    /\ manual_return.neg
    /\ FLt(Last(df.TotalSavings), FromInt(current_savings))
    /\ Last(df.Growth).neg

\* C7 (as claimed): at the same rate, starting balance, contribution and
\* horizon the balances of the primary projection and of the comparison differ
\* whenever the rate is not 0, and at rate 0 both are start + contribution * k
\* (taken here for positive starting balances).
C7_ConventionsDifferUnlessRateZero ==
    (next_option > 0 /\ return_rate = manual_return /\ current_savings > 0) =>
        IF IsZero(manual_return)
        THEN /\ option_savings = savings
             /\ \A k \in 0..YearsToInvest :
                   savings[k + 1] = FromInt(current_savings + annual_contribution * k)
        ELSE option_savings # savings

\* C7 (amended): at rate 0 the balances of the primary projection and of the
\* comparison are the same, start + contribution * k in year k.
C7_ConventionsCoincideAtRateZero ==
    (next_option > 0 /\ return_rate = manual_return /\ IsZero(manual_return)) =>
        /\ option_savings = savings
        /\ \A k \in 0..YearsToInvest :
              savings[k + 1] = FromInt(current_savings + annual_contribution * k)

\* C7 witness: an option compared at rate 0, the rate of the primary
\* projection, from a positive balance with contributions
C7_ComparedAtRateZero ==
    /\ next_option > 0
    /\ return_rate = manual_return
    /\ IsZero(manual_return)
    /\ current_savings > 0
    /\ annual_contribution > 0
    /\ Len(option_savings) = YearsToInvest + 1

\* C8 (as claimed): a compared option labelled Custom is evaluated at the rate
\* entered for Custom, whatever option is selected and whether or not the
\* inflation adjustment is on.
C8_CustomComparedAtEnteredRate ==
    (next_option > 0 /\ option = Custom) =>
        /\ custom_entry.shown
        /\ return_rate = FDiv(FromInt(custom_entry.percent), FromInt(100))

\* the rate the comparison reads for the option label
RateRead(label) ==
    IF label = Custom THEN manual_return
    ELSE IF OptionAt(investment_options, label).kind = "fixed"
    THEN OptionAt(investment_options, label).of
    ELSE LruGet(cache, OptionAt(investment_options, label).of)

\* C9: the comparison has one row per option taken, in the order of the
\* options, and one row per selected option when the loop is over; every
\* row's total contributions are annual_contribution * years_to_invest; every
\* option's series starts from current_savings and follows from it by the
\* option's own rate alone.
C9_OneRowPerOptionInOrder ==
    step \in {"loop", "done"} =>
        /\ Len(comparison_metrics) = next_option
        /\ Len(comparison_data.columns) = next_option
        /\ step = "done" => Len(comparison_metrics) = Len(comparison_options)
        /\ \A i \in 1..Len(comparison_metrics) :
              /\ comparison_metrics[i].Option = comparison_options[i]
              /\ comparison_metrics[i].TotalContributions =
                    FormatInMillionsBillionsTrillions(
                        FromInt(annual_contribution * YearsToInvest))
        /\ \A i \in 1..Len(comparison_data.columns) :
              /\ comparison_data.columns[i].label = comparison_options[i]
              /\ Len(comparison_data.columns[i].series) = YearsToInvest + 1
              /\ comparison_data.columns[i].series[1] = FromInt(current_savings)
              /\ \A k \in 1..YearsToInvest :
                    comparison_data.columns[i].series[k + 1] =
                        FAdd(FMul(comparison_data.columns[i].series[k],
                                  FAdd(One, RateRead(comparison_options[i]))),
                             FromInt(annual_contribution))

\* C9 witness: a finished comparison of two options at different rates, with
\* contributions and a positive starting balance
C9_TwoOptionsCompared ==
    /\ step = "done"
    /\ Len(comparison_options) = 2
    /\ Len(comparison_metrics) = 2
    /\ comparison_metrics[1].AnnualReturn # comparison_metrics[2].AnnualReturn
    /\ annual_contribution > 0
    /\ current_savings > 0

----------------------------------------------------------------------------
(* SpecCatalog: the script up to the loading of the catalog, for the sheets *)
(* the catalog file may hold.                                               *)

SampleRows ==
    { <<Text(<<"AAPL", "|", "Apple Inc">>)>>,
      <<Text(<<"MSFT", "|", "Microsoft">>)>>,
      <<Text(<<"no separator">>)>>,
      <<Number(<<"123">>)>>,
      <<Empty>>,
      <<Text(<<"IBM">>), Text(<<"IBM Corp">>)>>,
      <<Text(<<" ", "GE", " ">>), Text(<<"General Electric">>)>>,
      <<Text(<<"KO">>), Empty>> }

\* the sheets of n rows, every row with as many cells as the first
Sheets(n) ==
    { g \in [1..n -> SampleRows] : \A i \in 1..n : Len(g[i]) = Len(g[1]) }

CatalogFiles ==
    { [status |-> "missing", rows |-> <<>>],
      [status |-> "unreadable", rows |-> <<>>] }
    \cup { [status |-> "ok", rows |-> g] :
             g \in UNION { Sheets(n) : n \in 0..MaxRows } }

InitCatalog ==
    /\ EstimatorFresh
    /\ ThreadsIdle
    /\ request = None
    /\ \E f \in CatalogFiles : ScriptUnstarted(f)

NextCatalog ==
    \/ ReadInputs
    \/ \E exchange \in Exchanges : LoadOptions(exchange)

SpecCatalog == InitCatalog /\ [][NextCatalog]_vars

\* a row with the fields its exchange's format asks for, all of them text
WellFormed(parser, row) ==
    IF parser = "parse_nasdaq"
    THEN Len(row) >= 1 /\ row[1].kind = "text" /\ HasBar(row[1].text)
    ELSE Len(row) >= 2 /\ row[1].kind = "text" /\ row[2].kind = "text"

WellFormedRows(parser, rows) ==
    SelectSeq(rows, LAMBDA row : WellFormed(parser, row))

\* C10 (as claimed): loading a catalog that can be read shows no error and
\* gives the built-in options and the options of all its well-formed rows,
\* the other rows being skipped; a missing catalog gives exactly the built-in
\* options and one warning.
C10_MalformedRowsSkipped ==
    step = "select" =>
        /\ file.status = "missing" =>
              /\ investment_options = BaseOptions
              /\ messages = <<"warning">>
        /\ file.status = "ok" =>
              /\ messages = <<>>
              /\ investment_options =
                    LoadRows(ParserOf(selected_exchange),
                             WellFormedRows(ParserOf(selected_exchange), file.rows),
                             1, BaseOptions).options

====
